---------------------------- MODULE Spec2Model ----------------------------
(***************************************************************************)
(* The perceptron trainer of the neural-network notes notebook             *)
(* (src/unnamed/part_000, code cell at lines 135-181): stepFunction,       *)
(* prediction, perceptronStep and trainPerceptronAlgorithm.                *)
(*                                                                         *)
(* Numbers.  The coordinates of the points are whole numbers.  W, b and    *)
(* learn_rate are fixed-point: an integer n stands for the real n / Unit.  *)
(* With that reading X[i][0]*learn_rate, W[0] += ..., b += ... and         *)
(* np.matmul(X,W)+b are exact integer arithmetic on the quanta, and a      *)
(* quotient of two of them (line 180) is an exact fraction.  Rounding of   *)
(* the binary floating point is not modelled.                              *)
(*                                                                         *)
(* The module also models the training loop of the PyTorch notebook        *)
(* (src/P4/4.5_pytorch/Part 3 - Training Neural Networks.ipynb, lines      *)
(* 518-542), under the specification LoopSpec.                             *)
(*                                                                         *)
(* Indices.  Python counts from 0, TLA+ sequences from 1: W[1], W[2] here  *)
(* are W[0], W[1] of the source, X[k] is X[k-1], and the loop variables    *)
(* i and epoch run over 1..len instead of 0..len-1.                        *)
(***************************************************************************)
EXTENDS Integers, Sequences, FiniteSets, TLC

\* ---------------------------------------------------------------- bounds
\* Longest dataset given to perceptronStep / trainPerceptronAlgorithm.
MaxLen == 2
\* Largest num_epochs given to trainPerceptronAlgorithm.
MaxEpochs == 2
\* Number of quanta in 1.0: the exclusive upper end of np.random.rand and
\* the weight of one whole unit of x_max in b = rand + x_max.
Unit == 10
\* The points a dataset is made of (whole-number coordinates).
Points == { <<1, 1>>, <<-1, -1>>, <<1, 0>>, <<-1, 2>> }
\* Points of another dimensionality than the two weights (a data array
\* with three columns).
Points3 == { <<1, 0, 1>> }
\* The binary labels.
Labels == {0, 1}
\* Largest learning rate a caller passes, in quanta.
MaxRate == 2
\* Learning rates a caller passes, in quanta (0.1, 0.2, ...).
Rates == 1 .. MaxRate
\* Weights and bias a direct caller of perceptronStep passes, in quanta.
WeightVals == -1 .. 1
\* Values np.random.rand draws, in quanta (0.0 and 0.5 of [0, 1)).
RandGrid == {0, 5}
\* How many times the caller of train walks through the returned list.
MaxTraversals == 2
\* Number of mini-batches the trainloader yields per epoch.
NumBatches == 14
\* Line 518 of the training notebook.
epochs == 3
\* Line 519 of the training notebook.
print_every == 40
\* Values loss.item() takes.
LossVals == {1, 2}
\* Largest coefficient tried for a line that separates the two labels.
SepRange == 2
\* Most passes a caller that repeats perceptronStep makes: it grows with the
\* number of points and with the narrowness of the separating margin.
MaxPasses == 4 * MaxLen * SepRange

RECURSIVE SeqsUpTo(_, _)
\* All sequences over S of length 0..n.
SeqsUpTo(S, n) ==
    IF n = 0 THEN { <<>> }
    ELSE LET shorter == SeqsUpTo(S, n - 1)
         IN  shorter \cup { Append(s, e) : s \in { t \in shorter : Len(t) = n - 1 }, e \in S }

\* A dataset is a sequence of (point, label) pairs; X and y are its columns.
\* X is a rectangular array: its rows all have the same length.
Datasets == SeqsUpTo(Points \X Labels, MaxLen) \cup SeqsUpTo(Points3 \X Labels, MaxLen)

VARIABLES
    mode,            \* entry point the caller invoked: "step" or "train"
    X, y,            \* the data and the labels (arguments)
    learn_rate,      \* argument learn_rate
    num_epochs,      \* argument num_epochs (train only)
    W,               \* the weight array object; caller and callee share it
    b,               \* the caller's bias variable (train's local b)
    step_b,          \* perceptronStep's own local b
    i,               \* perceptronStep's loop variable
    epoch,           \* trainPerceptronAlgorithm's loop variable i
    boundary_lines,  \* trainPerceptronAlgorithm's list
    ret_b,           \* bias of the tuple perceptronStep returned last
    pc,              \* position of the running call
    pred,            \* perceptronStep's local y_hat
    errors,          \* the exceptions raised so far
    cursor,          \* how many elements the caller of train has read in
                     \* its current walk through the returned list
    traversals,      \* how many walks through the list the caller started
    \* history variables, written but never read by the program
    W_in, b_in,      \* weights and bias at the entry of the running step call
    visited,         \* the iterations of the running step call
    calls,           \* number of perceptronStep calls so far
    returned,        \* what each perceptronStep call of this train returned
    W_init, b_init,  \* weights and bias as drawn at lines 173-174
    first,           \* result of the first of two direct calls
    passed,          \* what each perceptronStep call of this train was given
    reads,           \* what the caller read in each walk through the list
    \* the training loop of the PyTorch notebook
    loop_pc,         \* position in the loop cell
    loop_e,          \* the loop variable e, counted from 1
    batch,           \* batches the trainloader has yielded in this epoch
    steps,           \* the global batch counter
    running_loss,    \* the running sum of losses
    loss,            \* loss.item() of the current batch
    grads,           \* number of backward passes summed into the .grad of
                     \* the parameters since they were last cleared
    opt_steps,       \* history: number of optimizer.step() calls
    opt_grads,       \* history: value of grads at the last optimizer.step()
    ops,             \* history: the operations run on the current batch
    printed,         \* the lines printed: epoch and loss shown
    window_loss,     \* history: sum of the losses of the batches since the
                     \* last print, or since the loop began
    summed           \* history: number of losses added into running_loss
                     \* since it was last set to 0

\* The caller's side of the list train returned, and the logs.
more_vars == << pred, errors, cursor, traversals, passed, reads >>

\* The state of the training loop of the PyTorch notebook.
loss_log == << window_loss, summed >>

loop_vars == << loop_pc, loop_e, batch, steps, running_loss, loss, grads,
               opt_steps, opt_grads, ops, printed, loss_log >>

vars == << mode, X, y, learn_rate, num_epochs, W, b, step_b, i, epoch,
           boundary_lines, ret_b, pc, W_in, b_in, visited, calls, returned,
           W_init, b_init, first, more_vars, loop_vars >>

\* The value of a name that is not bound yet.
Unbound == << >>

\* ------------------------------------------------------- pure functions
RECURSIVE matmulTo(_, _, _)
matmulTo(Xp, Wp, n) ==
    IF n = 0 THEN 0 ELSE matmulTo(Xp, Wp, n - 1) + Xp[n] * Wp[n]

\* np.matmul of a point (shape (2,)) and the weights (shape (2,1)).
matmul(Xp, Wp) == matmulTo(Xp, Wp, Len(Xp))

\* Variant: the threshold excludes 0.
stepFunctionStrict(t) == IF t > 0 THEN 1 ELSE 0

stepFunction(t) == IF t >= 0 THEN 1 ELSE 0

prediction(Xp, Wp, bp) == stepFunction(matmul(Xp, Wp) + bp)

\* Variant: line 157 reads X[i][0] where it should read X[i][1].
updateWSameColumn(Wc, Xp, diff, rate) ==
    IF diff = 1
    THEN << Wc[1] + Xp[1] * rate, Wc[2] + Xp[1] * rate >>
    ELSE IF diff = -1
    THEN << Wc[1] - Xp[1] * rate, Wc[2] - Xp[2] * rate >>
    ELSE Wc

\* Variant: lines 160-161 copied from 156-157 with the += left in.
updateWAlwaysAdds(Wc, Xp, diff, rate) ==
    IF diff = 1
    THEN << Wc[1] + Xp[1] * rate, Wc[2] + Xp[2] * rate >>
    ELSE IF diff = -1
    THEN << Wc[1] + Xp[1] * rate, Wc[2] + Xp[2] * rate >>
    ELSE Wc

\* Variant: line 162 adds the rate where it should subtract it.
updateBAlwaysAdds(bc, diff, rate) ==
    IF diff = 1 THEN bc + rate
    ELSE IF diff = -1 THEN bc + rate
    ELSE bc

\* Variant: the elif of line 159 written as a plain else.
updateBElse(bc, diff, rate) ==
    IF diff = 1 THEN bc + rate ELSE bc - rate

\* The branches of perceptronStep's loop body on the weights ...
updateW(Wc, Xp, diff, rate) ==
    IF diff = 1
    THEN << Wc[1] + Xp[1] * rate, Wc[2] + Xp[2] * rate >>
    ELSE IF diff = -1
    THEN << Wc[1] - Xp[1] * rate, Wc[2] - Xp[2] * rate >>
    ELSE Wc

\* ... and on the bias.
updateB(bc, diff, rate) ==
    IF diff = 1 THEN bc + rate
    ELSE IF diff = -1 THEN bc - rate
    ELSE bc

\* Variant: every prediction of a pass is made from the weights and bias
\* the pass started with.
y_hatFromEntry(k) == prediction(X[k], W_in, b_in)

\* The prediction the k-th iteration makes: from the current W and local b.
y_hat(k) == prediction(X[k], W, step_b)

Abs(n) == IF n < 0 THEN -n ELSE n

RECURSIVE Gcd(_, _)
Gcd(m, n) == IF n = 0 THEN m ELSE Gcd(n, m % n)

\* Variant: a guarded division that yields 0 when the divisor is 0.
QuotientZeroOnZero(p, q) ==
    IF q = 0
    THEN << 0, 1 >>
    ELSE LET g == Gcd(Abs(p), Abs(q))
             s == IF q < 0 THEN -1 ELSE 1
         IN  << (s * p) \div g, (s * q) \div g >>

\* The floating-point quotient p / q as an exact fraction << numerator,
\* denominator >> in lowest terms with a positive denominator.  Division by
\* zero does not raise in numpy: it yields inf, -inf or nan, written here
\* << 1, 0 >>, << -1, 0 >> and << 0, 0 >>.
Quotient(p, q) ==
    IF q = 0
    THEN << (IF p > 0 THEN 1 ELSE IF p < 0 THEN -1 ELSE 0), 0 >>
    ELSE LET g == Gcd(Abs(p), Abs(q))
             s == IF q < 0 THEN -1 ELSE 1
         IN  << (s * p) \div g, (s * q) \div g >>

\* Variant: line 180 without the unary minus on W[0].
boundaryLineNoMinus(Wc, bc) == << Quotient(Wc[1], Wc[2]), Quotient(-bc, Wc[2]) >>

\* The tuple appended at line 180.
boundaryLine(Wc, bc) == << Quotient(-Wc[1], Wc[2]), Quotient(-bc, Wc[2]) >>

RECURSIVE MaxOf(_)
MaxOf(S) == LET e == CHOOSE e \in S : TRUE
            IN  IF S = {e} THEN e
                ELSE LET m == MaxOf(S \ {e}) IN IF e > m THEN e ELSE m

\* max(X.T[0])
x_max == MaxOf({ X[k][1] : k \in 1 .. Len(X) })

\* ----------------------------------------------------------------- Init
\* The loop cell of the PyTorch notebook is not running.
LoopOff ==
    /\ loop_pc = "off"
    /\ loop_e = 0
    /\ batch = 0
    /\ steps = 0
    /\ running_loss = 0
    /\ loss = 0
    /\ grads = 0
    /\ opt_steps = 0
    /\ opt_grads = 0
    /\ ops = << >>
    /\ printed = << >>
    /\ window_loss = 0
    /\ summed = 0

\* A caller either calls perceptronStep itself, with weights and a bias of
\* its own, or trainPerceptronAlgorithm, which draws them.  Line 171 takes
\* min() of a column of X, so train is given at least one point.
Init ==
    /\ mode \in {"step", "train"}
    /\ \E ds \in Datasets :
          /\ mode = "train" => Len(ds) >= 1
          /\ X = [k \in 1 .. Len(ds) |-> ds[k][1]]
          /\ y = [k \in 1 .. Len(ds) |-> ds[k][2]]
    /\ learn_rate \in Rates
    /\ IF mode = "step"
       THEN /\ num_epochs = 0
            /\ W \in WeightVals \X WeightVals
            /\ b \in WeightVals
            /\ pc = "call"
       ELSE /\ num_epochs \in 0 .. MaxEpochs
            /\ W = Unbound
            /\ b = 0
            /\ pc = "train_init"
    /\ step_b = 0
    /\ i = 0
    /\ epoch = 0
    /\ boundary_lines = << >>
    /\ ret_b = 0
    /\ W_in = Unbound
    /\ b_in = 0
    /\ visited = << >>
    /\ calls = 0
    /\ returned = << >>
    /\ W_init = Unbound
    /\ b_init = 0
    /\ first = Unbound
    /\ pred = 0
    /\ errors = {}
    /\ cursor = 0
    /\ traversals = 0
    /\ passed = << >>
    /\ reads = << >>
    /\ LoopOff

\* -------------------------------------------------------------- actions
\* Variant: b is a module-level name that keeps the value the previous call
\* left in it, instead of a parameter.
stepEntryBiasStale == step_b

\* Entering perceptronStep(X, y, W, b, learn_rate): the parameter W is the
\* caller's array, the parameter b a local copy of the caller's value.
stepEntryBias == b


EnterStep ==
    /\ step_b' = stepEntryBias
    /\ i' = 1
    /\ W_in' = W
    /\ b_in' = b
    /\ visited' = << >>
    /\ calls' = calls + 1
    /\ passed' = Append(passed, [ W |-> W, b |-> b ])
    /\ pc' = "step_loop"

\* A direct call of perceptronStep.
CallStep ==
    /\ pc = "call"
    /\ EnterStep
    /\ UNCHANGED << loop_vars, mode, X, y, learn_rate, num_epochs, W, b, epoch,
                    boundary_lines, ret_b, returned, W_init, b_init, first,
                    pred, errors, cursor, traversals, reads >>

\* Lines 171-176.
TrainInit ==
    /\ pc = "train_init"
    /\ \E r1 \in RandGrid, r2 \in RandGrid, r3 \in RandGrid :
          /\ W' = << r1, r2 >>
          /\ b' = r3 + x_max * Unit
          /\ W_init' = << r1, r2 >>
          /\ b_init' = r3 + x_max * Unit
    /\ boundary_lines' = << >>
    /\ epoch' = 1
    /\ pc' = "epoch_loop"
    /\ UNCHANGED << loop_vars, mode, X, y, learn_rate, num_epochs, step_b, i, ret_b,
                    W_in, b_in, visited, calls, returned, first, more_vars >>

\* Variant: range(num_epochs - 1).
moreEpochsShort == epoch < num_epochs

\* Variant: range(num_epochs + 1).
moreEpochsLong == epoch <= num_epochs + 1

\* Line 177: does range(num_epochs) have another value?
moreEpochs == epoch <= num_epochs

\* Lines 177-179: the loop head and the call of perceptronStep.
EpochCall ==
    /\ pc = "epoch_loop"
    /\ moreEpochs
    /\ EnterStep
    /\ UNCHANGED << loop_vars, mode, X, y, learn_rate, num_epochs, W, b, epoch,
                    boundary_lines, ret_b, returned, W_init, b_init, first,
                    pred, errors, cursor, traversals, reads >>

\* Variant: the return of line 181 indented into the loop body, so that
\* train returns after its first epoch.
TrainReturnInLoop ==
    /\ pc = "epoch_loop"
    /\ (epoch > 1 \/ ~moreEpochs)
    /\ pc' = "done"
    /\ UNCHANGED << loop_vars, mode, X, y, learn_rate, num_epochs, W, b, step_b, i,
                    epoch, boundary_lines, ret_b, W_in, b_in, visited, calls,
                    returned, W_init, b_init, first, more_vars >>

\* Line 181.
TrainReturn ==
    /\ pc = "epoch_loop"
    /\ ~moreEpochs
    /\ pc' = "done"
    /\ UNCHANGED << loop_vars, mode, X, y, learn_rate, num_epochs, W, b, step_b, i,
                    epoch, boundary_lines, ret_b, W_in, b_in, visited, calls,
                    returned, W_init, b_init, first, more_vars >>

\* np.matmul accepts a point of shape (n,) and weights of shape (m,1) only
\* when n = m.
shapesMatch(Xp, Wp) == Len(Xp) = Len(Wp)

\* Variant: prediction adds its sum into the name b instead of into a
\* temporary.
StepPredictClobbersBias ==
    /\ pc = "step_loop"
    /\ i <= Len(X)
    /\ shapesMatch(X[i], W)
    /\ pred' = y_hat(i)
    /\ step_b' = matmul(X[i], W) + step_b
    /\ pc' = "step_update"
    /\ UNCHANGED << loop_vars, mode, X, y, learn_rate, num_epochs, W, b, i, epoch,
                    boundary_lines, ret_b, W_in, b_in, visited, calls,
                    returned, W_init, b_init, first, errors, cursor,
                    traversals, passed, reads >>

\* Lines 153-154: the loop head and the call of prediction, which returns.
StepPredict ==
    /\ pc = "step_loop"
    /\ i <= Len(X)
    /\ shapesMatch(X[i], W)
    /\ pred' = y_hat(i)
    /\ pc' = "step_update"
    /\ UNCHANGED << loop_vars, mode, X, y, learn_rate, num_epochs, W, b, step_b, i,
                    epoch, boundary_lines, ret_b, W_in, b_in, visited, calls,
                    returned, W_init, b_init, first, errors, cursor,
                    traversals, passed, reads >>

\* Variant: the call of prediction wrapped in try/except with continue, so
\* that a point of the wrong shape is skipped.
StepRaiseSwallowed ==
    /\ pc = "step_loop"
    /\ i <= Len(X)
    /\ ~shapesMatch(X[i], W)
    /\ i' = i + 1
    /\ errors' = errors \cup { [ kind |-> "ValueError", call |-> calls ] }
    /\ UNCHANGED << loop_vars, mode, X, y, learn_rate, num_epochs, W, b, step_b, epoch,
                    boundary_lines, ret_b, pc, W_in, b_in, visited, calls,
                    returned, W_init, b_init, first, pred, cursor,
                    traversals, passed, reads >>

\* Lines 153-154 and 145: np.matmul raises ValueError on operands whose
\* shapes do not match.  Nothing catches it: it leaves prediction,
\* perceptronStep and, when train made the call, trainPerceptronAlgorithm.
StepRaise ==
    /\ pc = "step_loop"
    /\ i <= Len(X)
    /\ ~shapesMatch(X[i], W)
    /\ errors' = errors \cup { [ kind |-> "ValueError", call |-> calls ] }
    /\ pc' = "raised"
    /\ UNCHANGED << loop_vars, mode, X, y, learn_rate, num_epochs, W, b, step_b, i,
                    epoch, boundary_lines, ret_b, W_in, b_in, visited, calls,
                    returned, W_init, b_init, first, pred, cursor,
                    traversals, passed, reads >>

\* Lines 155-162: the rest of one iteration of perceptronStep's loop.
StepIter ==
    /\ pc = "step_update"
    /\ LET diff == y[i] - pred
           Wn   == updateW(W, X[i], diff, learn_rate)
           bn   == updateB(step_b, diff, learn_rate)
       IN  /\ W' = Wn
           /\ step_b' = bn
           /\ visited' = Append(visited,
                  [ idx |-> i, W |-> W, b |-> step_b, y_hat |-> pred,
                    W_post |-> Wn, b_post |-> bn ])
    /\ i' = i + 1
    /\ pc' = "step_loop"
    /\ UNCHANGED << loop_vars, mode, X, y, learn_rate, num_epochs, b, epoch,
                    boundary_lines, ret_b, W_in, b_in, calls, returned,
                    W_init, b_init, first, more_vars >>

\* Variant: line 179 written W, _ = perceptronStep(...), so that train
\* keeps the bias it drew.
StepReturnDropsBias ==
    /\ pc = "step_loop"
    /\ i > Len(X)
    /\ ret_b' = step_b
    /\ IF mode = "train"
       THEN /\ b' = b
            /\ returned' = Append(returned, [ W |-> W, b |-> step_b ])
            /\ pc' = "append"
       ELSE /\ UNCHANGED << b, returned >>
            /\ pc' = "returned"
    /\ UNCHANGED << loop_vars, mode, X, y, learn_rate, num_epochs, W, step_b, i, epoch,
                    boundary_lines, W_in, b_in, visited, calls, W_init,
                    b_init, first, more_vars >>

\* Variant: the bias is a one-element array that perceptronStep updates in
\* place, as it does the weights, so that the caller's bias follows.
StepReturnBiasInPlace ==
    /\ pc = "step_loop"
    /\ i > Len(X)
    /\ ret_b' = step_b
    /\ b' = step_b
    /\ IF mode = "train"
       THEN /\ returned' = Append(returned, [ W |-> W, b |-> step_b ])
            /\ pc' = "append"
       ELSE /\ UNCHANGED returned
            /\ pc' = "returned"
    /\ UNCHANGED << loop_vars, mode, X, y, learn_rate, num_epochs, W, step_b,
                    i, epoch, boundary_lines, W_in, b_in, visited, calls,
                    W_init, b_init, first, more_vars >>

\* Line 163, and for train the assignment W, b = ... of line 179.  The
\* returned W is the array the caller passed, so only the bias is new.
StepReturn ==
    /\ pc = "step_loop"
    /\ i > Len(X)
    /\ ret_b' = step_b
    /\ IF mode = "train"
       THEN /\ b' = step_b
            /\ returned' = Append(returned, [ W |-> W, b |-> step_b ])
            /\ pc' = "append"
       ELSE /\ UNCHANGED << b, returned >>
            /\ pc' = "returned"
    /\ UNCHANGED << loop_vars, mode, X, y, learn_rate, num_epochs, W, step_b, i, epoch,
                    boundary_lines, W_in, b_in, visited, calls, W_init,
                    b_init, first, more_vars >>

\* Variant: line 180 negates W[0] in place (W[0] *= -1) before dividing.
AppendLineNegatesInPlace ==
    /\ pc = "append"
    /\ boundary_lines' = Append(boundary_lines, boundaryLine(W, b))
    /\ W' = << -W[1], W[2] >>
    /\ epoch' = epoch + 1
    /\ pc' = "epoch_loop"
    /\ UNCHANGED << loop_vars, mode, X, y, learn_rate, num_epochs, b, step_b, i,
                    ret_b, W_in, b_in, visited, calls, returned, W_init,
                    b_init, first, more_vars >>

\* Variant: the list holds references to one live line object that every
\* epoch overwrites, so that all its elements show the latest line.
AppendLineOverwrites ==
    /\ pc = "append"
    /\ boundary_lines' = [ k \in 1 .. Len(boundary_lines) + 1 |-> boundaryLine(W, b) ]
    /\ epoch' = epoch + 1
    /\ pc' = "epoch_loop"
    /\ UNCHANGED << loop_vars, mode, X, y, learn_rate, num_epochs, W, b, step_b, i,
                    ret_b, W_in, b_in, visited, calls, returned, W_init,
                    b_init, first, more_vars >>

\* Line 180.
AppendLine ==
    /\ pc = "append"
    /\ boundary_lines' = Append(boundary_lines, boundaryLine(W, b))
    /\ epoch' = epoch + 1
    /\ pc' = "epoch_loop"
    /\ UNCHANGED << loop_vars, mode, X, y, learn_rate, num_epochs, W, b, step_b, i,
                    ret_b, W_in, b_in, visited, calls, returned, W_init,
                    b_init, first, more_vars >>

\* The direct caller calls perceptronStep a second time with a copy of the
\* weights it passed the first time and the same bias, data and rate.
CallAgain ==
    /\ mode = "step"
    /\ pc = "returned"
    /\ calls = 1
    /\ first' = << W, ret_b >>
    /\ W' = W_in
    /\ pc' = "call"
    /\ UNCHANGED << loop_vars, mode, X, y, learn_rate, num_epochs, b, step_b, i, epoch,
                    boundary_lines, ret_b, W_in, b_in, visited, calls,
                    returned, W_init, b_init, more_vars >>

\* Line 181 returns a list.  Its caller starts a walk through it: the
\* first one, or another one after a walk that reached the end.
StartWalk ==
    /\ mode = "train"
    /\ pc = "done"
    /\ traversals < MaxTraversals
    /\ (traversals = 0 \/ cursor = Len(boundary_lines))
    /\ traversals' = traversals + 1
    /\ cursor' = 0
    /\ reads' = Append(reads, << >>)
    /\ UNCHANGED << loop_vars, mode, X, y, learn_rate, num_epochs, W, b, step_b, i,
                    epoch, boundary_lines, ret_b, pc, W_in, b_in, visited,
                    calls, returned, W_init, b_init, first, pred, errors,
                    passed >>

\* The caller reads the next element of the list.
ReadNext ==
    /\ mode = "train"
    /\ pc = "done"
    /\ traversals >= 1
    /\ cursor < Len(boundary_lines)
    /\ cursor' = cursor + 1
    /\ reads' = [ reads EXCEPT ![traversals] = Append(@, boundary_lines[cursor + 1]) ]
    /\ UNCHANGED << loop_vars, mode, X, y, learn_rate, num_epochs, W, b, step_b, i,
                    epoch, boundary_lines, ret_b, pc, W_in, b_in, visited,
                    calls, returned, W_init, b_init, first, pred, errors,
                    traversals, passed >>

Next ==
    \/ CallStep
    \/ TrainInit
    \/ EpochCall
    \/ TrainReturn
    \/ StepPredict
    \/ StepRaise
    \/ StepIter
    \/ StepReturn
    \/ AppendLine
    \/ CallAgain
    \/ StartWalk
    \/ ReadNext

Spec == Init /\ [][Next]_vars

\* ------------------------------------------- repeating perceptronStep
\* Some line w1*x1 + w2*x2 + c = 0 has the points labelled 1 on its
\* non-negative side and the points labelled 0 on its negative side.
Separable(Xs, ys) ==
    \E w1 \in -SepRange .. SepRange, w2 \in -SepRange .. SepRange,
       c \in -SepRange .. SepRange :
        \A k \in 1 .. Len(Xs) :
            ys[k] = 1 <=> w1 * Xs[k][1] + w2 * Xs[k][2] + c >= 0

\* A caller that applies W, b = perceptronStep(X, y, W, b, learn_rate)
\* again and again, as lines 177-179 do, to a linearly separable dataset
\* of 2D points, from weights and a bias of its own.
IterInit ==
    /\ mode = "iterate"
    /\ \E ds \in SeqsUpTo(Points \X Labels, MaxLen) :
          /\ Len(ds) >= 1
          /\ X = [k \in 1 .. Len(ds) |-> ds[k][1]]
          /\ y = [k \in 1 .. Len(ds) |-> ds[k][2]]
    /\ Separable(X, y)
    /\ learn_rate \in Rates
    /\ num_epochs = 0
    /\ W \in WeightVals \X WeightVals
    /\ b \in WeightVals
    /\ pc = "call"
    /\ step_b = 0
    /\ i = 0
    /\ epoch = 0
    /\ boundary_lines = << >>
    /\ ret_b = 0
    /\ W_in = Unbound
    /\ b_in = 0
    /\ visited = << >>
    /\ calls = 0
    /\ returned = << >>
    /\ W_init = Unbound
    /\ b_init = 0
    /\ first = Unbound
    /\ pred = 0
    /\ errors = {}
    /\ cursor = 0
    /\ traversals = 0
    /\ passed = << >>
    /\ reads = << >>
    /\ LoopOff

\* The pass that just returned changed a weight or the bias.
passUpdated == << W, ret_b >> # << W_in, b_in >>

\* Lines 177-179: the caller takes the returned bias and calls again.
IterAgain ==
    /\ mode = "iterate"
    /\ pc = "returned"
    /\ passUpdated
    /\ calls < MaxPasses
    /\ b' = ret_b
    /\ pc' = "call"
    /\ UNCHANGED << loop_vars, mode, X, y, learn_rate, num_epochs, W, step_b, i, epoch,
                    boundary_lines, ret_b, W_in, b_in, visited, calls,
                    returned, W_init, b_init, first, more_vars >>

\* The caller takes the returned bias of a pass that changed nothing.
IterStop ==
    /\ mode = "iterate"
    /\ pc = "returned"
    /\ ~passUpdated
    /\ b' = ret_b
    /\ pc' = "converged"
    /\ UNCHANGED << loop_vars, mode, X, y, learn_rate, num_epochs, W, step_b, i, epoch,
                    boundary_lines, ret_b, W_in, b_in, visited, calls,
                    returned, W_init, b_init, first, more_vars >>

IterNext ==
    \/ CallStep
    \/ StepPredict
    \/ StepIter
    \/ StepReturn
    \/ IterAgain
    \/ IterStop

\* The interpreter runs the caller's loop on: nothing suspends it.
IterSpec == IterInit /\ [][IterNext]_vars /\ WF_vars(IterNext)

\* The interpreter runs a started call to its end: nothing suspends it.
FairSpec == Spec /\ WF_vars(Next)

\* ------------------------------------ the PyTorch training loop cell
\* Neither perceptronStep nor trainPerceptronAlgorithm is running.
PerceptronOff ==
    /\ mode = "loop"
    /\ X = << >>
    /\ y = << >>
    /\ learn_rate = 0
    /\ num_epochs = 0
    /\ W = Unbound
    /\ b = 0
    /\ step_b = 0
    /\ i = 0
    /\ epoch = 0
    /\ boundary_lines = << >>
    /\ ret_b = 0
    /\ pc = "off"
    /\ W_in = Unbound
    /\ b_in = 0
    /\ visited = << >>
    /\ calls = 0
    /\ returned = << >>
    /\ W_init = Unbound
    /\ b_init = 0
    /\ first = Unbound
    /\ pred = 0
    /\ errors = {}
    /\ cursor = 0
    /\ traversals = 0
    /\ passed = << >>
    /\ reads = << >>

\* Lines 518-520, before the loop.  The parameters' .grad holds the
\* gradients of one backward pass when the single training step of lines
\* 376-387 was run before the cell, and nothing otherwise.
LoopInit ==
    /\ PerceptronOff
    /\ loop_pc = "epoch_head"
    /\ loop_e = 0
    /\ batch = 0
    /\ steps = 0
    /\ running_loss = 0
    /\ loss = 0
    /\ grads \in {0, 1}
    /\ opt_steps = 0
    /\ opt_grads = 0
    /\ ops = << >>
    /\ printed = << >>
    /\ window_loss = 0
    /\ summed = 0

\* "{:.4f}".format(n / d): the quotient in ten-thousandths, rounded.
format4(n, d) == (2 * 10000 * n + d) \div (2 * d)

\* Lines 521-522: the next epoch begins.
LoopEpochHead ==
    /\ loop_pc = "epoch_head"
    /\ loop_e < epochs
    /\ loop_e' = loop_e + 1
    /\ running_loss' = 0
    /\ summed' = 0
    /\ batch' = 0
    /\ loop_pc' = "batch_head"
    /\ UNCHANGED << window_loss, steps, loss, grads, opt_steps, opt_grads, ops, printed >>
    /\ UNCHANGED << mode, X, y, learn_rate, num_epochs, W, b, step_b, i,
                    epoch, boundary_lines, ret_b, pc, W_in, b_in, visited,
                    calls, returned, W_init, b_init, first, more_vars >>

\* Line 521: range(epochs) is exhausted.
LoopEnd ==
    /\ loop_pc = "epoch_head"
    /\ loop_e >= epochs
    /\ loop_pc' = "loop_done"
    /\ UNCHANGED << loss_log, loop_e, batch, steps, running_loss, loss, grads,
                    opt_steps, opt_grads, ops, printed >>
    /\ UNCHANGED << mode, X, y, learn_rate, num_epochs, W, b, step_b, i,
                    epoch, boundary_lines, ret_b, pc, W_in, b_in, visited,
                    calls, returned, W_init, b_init, first, more_vars >>

\* Lines 523-526: the trainloader yields the next batch.
LoopNextBatch ==
    /\ loop_pc = "batch_head"
    /\ batch < NumBatches
    /\ batch' = batch + 1
    /\ steps' = steps + 1
    /\ ops' = << >>
    /\ loop_pc' = "zero_grad"
    /\ UNCHANGED << loss_log, loop_e, running_loss, loss, grads, opt_steps, opt_grads,
                    printed >>
    /\ UNCHANGED << mode, X, y, learn_rate, num_epochs, W, b, step_b, i,
                    epoch, boundary_lines, ret_b, pc, W_in, b_in, visited,
                    calls, returned, W_init, b_init, first, more_vars >>

\* Line 523: the trainloader is exhausted.
LoopEpochEnd ==
    /\ loop_pc = "batch_head"
    /\ batch >= NumBatches
    /\ loop_pc' = "epoch_head"
    /\ UNCHANGED << loss_log, loop_e, batch, steps, running_loss, loss, grads,
                    opt_steps, opt_grads, ops, printed >>
    /\ UNCHANGED << mode, X, y, learn_rate, num_epochs, W, b, step_b, i,
                    epoch, boundary_lines, ret_b, pc, W_in, b_in, visited,
                    calls, returned, W_init, b_init, first, more_vars >>

\* Variant: zero_grad is called on an optimizer that does not hold the
\* model's parameters, so that their gradients stay.
LoopZeroGradElsewhere ==
    /\ loop_pc = "zero_grad"
    /\ grads' = grads
    /\ ops' = Append(ops, "zero_grad")
    /\ loop_pc' = "forward"
    /\ UNCHANGED << loss_log, loop_e, batch, steps, running_loss, loss, opt_steps,
                    opt_grads, printed >>
    /\ UNCHANGED << mode, X, y, learn_rate, num_epochs, W, b, step_b, i,
                    epoch, boundary_lines, ret_b, pc, W_in, b_in, visited,
                    calls, returned, W_init, b_init, first, more_vars >>

\* Line 528: optimizer.zero_grad() clears the gradients.
LoopZeroGrad ==
    /\ loop_pc = "zero_grad"
    /\ grads' = 0
    /\ ops' = Append(ops, "zero_grad")
    /\ loop_pc' = "forward"
    /\ UNCHANGED << loss_log, loop_e, batch, steps, running_loss, loss, opt_steps,
                    opt_grads, printed >>
    /\ UNCHANGED << mode, X, y, learn_rate, num_epochs, W, b, step_b, i,
                    epoch, boundary_lines, ret_b, pc, W_in, b_in, visited,
                    calls, returned, W_init, b_init, first, more_vars >>

\* Line 531: output = model.forward(images).
LoopForward ==
    /\ loop_pc = "forward"
    /\ ops' = Append(ops, "forward")
    /\ loop_pc' = "loss"
    /\ UNCHANGED << loss_log, loop_e, batch, steps, running_loss, loss, grads,
                    opt_steps, opt_grads, printed >>
    /\ UNCHANGED << mode, X, y, learn_rate, num_epochs, W, b, step_b, i,
                    epoch, boundary_lines, ret_b, pc, W_in, b_in, visited,
                    calls, returned, W_init, b_init, first, more_vars >>

\* Line 532: loss = criterion(output, labels).
LoopLoss ==
    /\ loop_pc = "loss"
    /\ loss' \in LossVals
    /\ ops' = Append(ops, "loss")
    /\ loop_pc' = "backward"
    /\ UNCHANGED << loss_log, loop_e, batch, steps, running_loss, grads, opt_steps,
                    opt_grads, printed >>
    /\ UNCHANGED << mode, X, y, learn_rate, num_epochs, W, b, step_b, i,
                    epoch, boundary_lines, ret_b, pc, W_in, b_in, visited,
                    calls, returned, W_init, b_init, first, more_vars >>

\* Line 533: loss.backward() adds the gradients of this loss to .grad.
LoopBackward ==
    /\ loop_pc = "backward"
    /\ grads' = grads + 1
    /\ ops' = Append(ops, "backward")
    /\ loop_pc' = "opt_step"
    /\ UNCHANGED << loss_log, loop_e, batch, steps, running_loss, loss, opt_steps,
                    opt_grads, printed >>
    /\ UNCHANGED << mode, X, y, learn_rate, num_epochs, W, b, step_b, i,
                    epoch, boundary_lines, ret_b, pc, W_in, b_in, visited,
                    calls, returned, W_init, b_init, first, more_vars >>

\* Line 534: optimizer.step() updates the parameters from .grad.
LoopOptStep ==
    /\ loop_pc = "opt_step"
    /\ opt_steps' = opt_steps + 1
    /\ opt_grads' = grads
    /\ ops' = Append(ops, "step")
    /\ loop_pc' = "add_loss"
    /\ UNCHANGED << loss_log, loop_e, batch, steps, running_loss, loss, grads,
                    printed >>
    /\ UNCHANGED << mode, X, y, learn_rate, num_epochs, W, b, step_b, i,
                    epoch, boundary_lines, ret_b, pc, W_in, b_in, visited,
                    calls, returned, W_init, b_init, first, more_vars >>

\* Line 536: running_loss += loss.item().
LoopAddLoss ==
    /\ loop_pc = "add_loss"
    /\ running_loss' = running_loss + loss
    /\ window_loss' = window_loss + loss
    /\ summed' = summed + 1
    /\ loop_pc' = "check_print"
    /\ UNCHANGED << loop_e, batch, steps, loss, grads, opt_steps, opt_grads,
                    ops, printed >>
    /\ UNCHANGED << mode, X, y, learn_rate, num_epochs, W, b, step_b, i,
                    epoch, boundary_lines, ret_b, pc, W_in, b_in, visited,
                    calls, returned, W_init, b_init, first, more_vars >>

\* Lines 538-542: the loss is printed and the running sum cleared.
LoopPrint ==
    /\ loop_pc = "check_print"
    /\ steps % print_every = 0
    /\ printed' = Append(printed,
           [ epoch |-> loop_e, steps |-> steps,
             shown |-> format4(running_loss, print_every),
             window |-> window_loss, batches |-> summed ])
    /\ running_loss' = 0
    /\ window_loss' = 0
    /\ summed' = 0
    /\ loop_pc' = "batch_head"
    /\ UNCHANGED << loop_e, batch, steps, loss, grads, opt_steps, opt_grads,
                    ops >>
    /\ UNCHANGED << mode, X, y, learn_rate, num_epochs, W, b, step_b, i,
                    epoch, boundary_lines, ret_b, pc, W_in, b_in, visited,
                    calls, returned, W_init, b_init, first, more_vars >>

\* Line 538: the condition is false.
LoopSkipPrint ==
    /\ loop_pc = "check_print"
    /\ steps % print_every # 0
    /\ loop_pc' = "batch_head"
    /\ UNCHANGED << loss_log, loop_e, batch, steps, running_loss, loss, grads,
                    opt_steps, opt_grads, ops, printed >>
    /\ UNCHANGED << mode, X, y, learn_rate, num_epochs, W, b, step_b, i,
                    epoch, boundary_lines, ret_b, pc, W_in, b_in, visited,
                    calls, returned, W_init, b_init, first, more_vars >>

LoopNext ==
    \/ LoopEpochHead
    \/ LoopEnd
    \/ LoopNextBatch
    \/ LoopEpochEnd
    \/ LoopZeroGrad
    \/ LoopForward
    \/ LoopLoss
    \/ LoopBackward
    \/ LoopOptStep
    \/ LoopAddLoss
    \/ LoopPrint
    \/ LoopSkipPrint

LoopSpec == LoopInit /\ [][LoopNext]_vars

\* --------------------------------------------------------------- claims
\* perceptronStep has just returned: its result is << W, ret_b >>.
StepDone == pc \in {"returned", "append"}

\* dot(point, weights) + bias, written out for the two coordinates.
Activation(Xp, Wp, bp) == Xp[1] * Wp[1] + Xp[2] * Wp[2] + bp

\* C1: every prediction made is 1 when dot(point, weights) + bias >= 0
\* (0 included) and 0 otherwise, and never any other value.
C1_PredictIsThreshold ==
    \A k \in 1 .. Len(visited) :
        LET v == visited[k]
            t == Activation(X[v.idx], v.W, v.b)
        IN  /\ v.y_hat \in {0, 1}
            /\ v.y_hat = 1 <=> t >= 0

\* A prediction was made where the sum is exactly 0, and one where it is
\* negative.
C1_Witness ==
    /\ \E k \in 1 .. Len(visited) :
          /\ Activation(X[visited[k].idx], visited[k].W, visited[k].b) = 0
          /\ visited[k].y_hat = 1
    /\ \E k \in 1 .. Len(visited) :
          /\ Activation(X[visited[k].idx], visited[k].W, visited[k].b) < 0
          /\ visited[k].y_hat = 0

\* The scenario of C2: dataset [([1,1],1), ([-1,-1],0)], weights [0,0],
\* bias 0, learning rate 0.1 (one quantum), one direct call that returned.
C2_Scenario ==
    /\ mode = "step"
    /\ pc = "returned"
    /\ X = << <<1, 1>>, <<-1, -1>> >>
    /\ y = << 1, 0 >>
    /\ W_in = << 0, 0 >>
    /\ b_in = 0
    /\ learn_rate * 10 = Unit

\* C2 as stated: the first point changes nothing and the call returns
\* weights [0.1, 0.1] and bias 0.1.
C2_AsStated ==
    C2_Scenario =>
        /\ visited[1].W_post = << 0, 0 >> /\ visited[1].b_post = 0
        /\ W = << 1, 1 >>
        /\ ret_b = 1

\* C2, amended: the first point changes nothing and the call returns
\* weights [0.1, 0.1] and bias -0.1 (a false positive lowers the bias).
C2_ScenarioResult ==
    C2_Scenario =>
        /\ visited[1].W_post = << 0, 0 >> /\ visited[1].b_post = 0
        /\ W = << 1, 1 >>
        /\ ret_b = -1

\* The scenario's call has returned (for the first time).
C2_Witness == C2_Scenario /\ calls = 1

\* C3: on a single-point dataset whose point has label 1 and is predicted 0
\* from the input weights and bias, one call of perceptronStep raises every
\* weight by exactly point[i] * learn_rate and the bias by learn_rate.
C3_FalseNegativeUpdate ==
    ( /\ StepDone
      /\ Len(X) = 1
      /\ y[1] = 1
      /\ Activation(X[1], W_in, b_in) < 0 )
    => /\ \A d \in 1 .. 2 : W[d] = W_in[d] + X[1][d] * learn_rate
       /\ ret_b = b_in + learn_rate

\* Such a call returned, for a point whose two coordinates differ.
C3_Witness ==
    /\ StepDone
    /\ Len(X) = 1
    /\ y[1] = 1
    /\ Activation(X[1], W_in, b_in) < 0
    /\ X[1][1] # X[1][2]
    /\ W # W_in

\* C4: on a single-point dataset whose point has label 0 and is predicted 1
\* from the input weights and bias, one call of perceptronStep lowers every
\* weight by exactly point[i] * learn_rate and the bias by learn_rate.
C4_FalsePositiveUpdate ==
    ( /\ StepDone
      /\ Len(X) = 1
      /\ y[1] = 0
      /\ Activation(X[1], W_in, b_in) >= 0 )
    => /\ \A d \in 1 .. 2 : W[d] = W_in[d] - X[1][d] * learn_rate
       /\ ret_b = b_in - learn_rate

\* Such a call returned, for a point whose two coordinates differ.
C4_Witness ==
    /\ StepDone
    /\ Len(X) = 1
    /\ y[1] = 0
    /\ Activation(X[1], W_in, b_in) >= 0
    /\ X[1][1] # X[1][2]
    /\ W # W_in

\* Every pair of the dataset is predicted as labelled from the weights and
\* bias the call was given.
AllCorrectAtEntry ==
    \A k \in 1 .. Len(X) : prediction(X[k], W_in, b_in) = y[k]

\* C5: when every pair is already predicted as labelled from the input
\* weights and bias, perceptronStep returns its input weights and bias.
C5_FixedPoint ==
    (StepDone /\ AllCorrectAtEntry) => (W = W_in /\ ret_b = b_in)

\* A call on two correctly predicted pairs, one of each label, returned.
C5_Witness ==
    /\ StepDone
    /\ AllCorrectAtEntry
    /\ Len(X) = 2
    /\ y[1] # y[2]

\* C6: a pass visits the pairs once each in dataset order, and the
\* prediction for the k-th pair is made from the weights and bias as the
\* pairs before it left them, the first from those the pass was given.
C6_SequentialPass ==
    /\ Len(visited) <= Len(X)
    /\ StepDone => Len(visited) = Len(X)
    /\ \A k \in 1 .. Len(visited) :
          LET v == visited[k]
          IN  /\ v.idx = k
              /\ k = 1 => (v.W = W_in /\ v.b = b_in)
              /\ k > 1 => (v.W = visited[k - 1].W_post /\ v.b = visited[k - 1].b_post)
              /\ v.y_hat = (IF Activation(X[k], v.W, v.b) >= 0 THEN 1 ELSE 0)
              /\ v.W_post = [d \in 1 .. 2 |-> v.W[d] + (y[k] - v.y_hat) * X[k][d] * learn_rate]
              /\ v.b_post = v.b + (y[k] - v.y_hat) * learn_rate

\* A pass returned in which a later pair was predicted differently from
\* how the weights the pass started with would have predicted it.
C6_Witness ==
    /\ StepDone
    /\ \E k \in 2 .. Len(visited) :
          visited[k].y_hat # prediction(X[k], W_in, b_in)

\* C7: two independent calls of perceptronStep with identical dataset,
\* weights, bias and learning rate return identical weights and bias.
C7_Deterministic ==
    (mode = "step" /\ pc = "returned" /\ calls = 2) => << W, ret_b >> = first

\* The second of two such calls returned, and the calls changed the weights.
C7_Witness ==
    /\ mode = "step"
    /\ pc = "returned"
    /\ calls = 2
    /\ first # << W_in, b_in >>

\* Every row of X has as many entries as there are weights.
WellShaped == \A k \in 1 .. Len(X) : Len(X[k]) = 2

\* Where train stands between its calls of perceptronStep and its appends.
C8_Counts ==
    mode = "train" =>
        /\ pc = "epoch_loop" => (calls = epoch - 1 /\ Len(boundary_lines) = calls)
        /\ pc \in {"step_loop", "step_update", "append"} =>
              (calls = epoch /\ calls <= num_epochs /\ Len(boundary_lines) = calls - 1)
        /\ pc = "done" => (calls = num_epochs /\ Len(boundary_lines) = num_epochs)

\* C8: for every num_epochs >= 0 train (on data of the weights' shape)
\* terminates, having called
\* perceptronStep exactly num_epochs times, with exactly num_epochs lines,
\* the k-th appended right after the k-th call returned.
C8_TrainRunsNumEpochs ==
    /\ []C8_Counts
    /\ [][ boundary_lines' # boundary_lines =>
              /\ pc = "append"
              /\ Len(boundary_lines') = calls
              /\ calls' = calls ]_vars
    /\ (mode = "train" /\ WellShaped) ~> (pc = "done")

\* A train of at least two epochs has returned.
C8_Witness ==
    /\ mode = "train"
    /\ pc = "done"
    /\ num_epochs >= 2
    /\ Len(boundary_lines) = num_epochs

\* The fraction f is the real number n / d.
IsRatio(f, n, d) == f[2] > 0 /\ f[1] * d = n * f[2]

\* C9: for every epoch k whose second weight is non-zero after the k-th
\* call of perceptronStep, the k-th line is (-W[0]/W[1], -b/W[1]) of the
\* weights and bias that call returned.
C9_BoundaryLineFormula ==
    mode = "train" =>
        \A k \in 1 .. Len(boundary_lines) :
            returned[k].W[2] # 0 =>
                /\ IsRatio(boundary_lines[k][1], -returned[k].W[1], returned[k].W[2])
                /\ IsRatio(boundary_lines[k][2], -returned[k].b, returned[k].W[2])

\* Two lines were appended, both from a non-zero second weight, the second
\* from weights that an update had changed and with a non-zero slope.
C9_Witness ==
    /\ mode = "train"
    /\ Len(boundary_lines) = 2
    /\ returned[1].W[2] # 0
    /\ returned[2].W[2] # 0
    /\ returned[2].W # W_init
    /\ returned[2].W[1] # 0
    /\ boundary_lines[2] # boundary_lines[1]

\* C10: train with num_epochs = 0 returns an empty sequence, never calls
\* perceptronStep and leaves the weights and bias as they were drawn.
C10_ZeroEpochs ==
    (mode = "train" /\ num_epochs = 0) =>
        /\ calls = 0
        /\ boundary_lines = << >>
        /\ pc \in {"train_init", "epoch_loop", "done"}
        /\ pc # "train_init" => (W = W_init /\ b = b_init)

\* A train with num_epochs = 0 has returned.
C10_Witness ==
    /\ mode = "train"
    /\ num_epochs = 0
    /\ pc = "done"
    /\ W_init # Unbound

\* The fraction f is inf, -inf or nan.
NonFinite(f) == f[2] = 0

\* C11 as stated: when the second weight is 0 at the end of epoch k, the
\* derivation of that epoch's line raises a division-by-zero error, and the
\* lines train returns are those of the other epochs.
C11_AsStated ==
    (mode = "train" /\ pc = "done") =>
        /\ \A k \in 1 .. Len(returned) :
              returned[k].W[2] = 0 =>
                  [ kind |-> "ZeroDivisionError", call |-> k ] \in errors
        /\ Len(boundary_lines) =
              Cardinality({ k \in 1 .. Len(returned) : returned[k].W[2] # 0 })

\* C11, amended: when the second weight is 0 at the end of epoch k no error
\* is raised; the k-th line is appended with non-finite components (inf,
\* -inf or nan), the lines of the other epochs are finite, and train runs
\* every epoch and returns one line for each.
C11_ZeroWeightLine ==
    mode = "train" =>
        /\ \A e \in errors : e.kind # "ZeroDivisionError"
        /\ \A k \in 1 .. Len(boundary_lines) :
              IF returned[k].W[2] = 0
              THEN NonFinite(boundary_lines[k][1]) /\ NonFinite(boundary_lines[k][2])
              ELSE ~NonFinite(boundary_lines[k][1]) /\ ~NonFinite(boundary_lines[k][2])
        /\ pc = "done" => (Len(boundary_lines) = num_epochs /\ calls = num_epochs)

\* A train returned in which one epoch ended with a zero second weight and
\* another with a non-zero one.
C11_Witness ==
    /\ mode = "train"
    /\ pc = "done"
    /\ \E j, k \in 1 .. Len(returned) :
          returned[j].W[2] = 0 /\ returned[k].W[2] # 0

\* C12: when a point's dimensionality differs from the weights', the
\* prediction raises instead of returning a label, and the error ends the
\* call of perceptronStep and of train: nothing more runs and train returns
\* no list.
C12_ShapeMismatchAborts ==
    /\ [][ (pc = "step_loop" /\ i <= Len(X) /\ Len(X[i]) # Len(W)) =>
              /\ pc' = "raised"
              /\ [ kind |-> "ValueError", call |-> calls ] \in errors'
              /\ pred' = pred /\ visited' = visited
              /\ UNCHANGED << W, b, step_b, ret_b, boundary_lines, returned >> ]_vars
    /\ [][ pc = "raised" => pc' = "raised" ]_vars
    /\ [](errors # {} => (pc = "raised" /\ traversals = 0))

\* A train was aborted by a point of three coordinates.
C12_Witness ==
    /\ mode = "train"
    /\ pc = "raised"
    /\ num_epochs >= 2
    /\ Len(X[1]) = 3
    /\ errors = { [ kind |-> "ValueError", call |-> 1 ] }

\* C13: the weights and bias are drawn once, before the first epoch, and
\* never reset: the first call of perceptronStep is given what was drawn
\* and every later call what the call before it returned.
C13_NoReset ==
    mode = "train" =>
        /\ pc # "train_init" => (W_init # Unbound /\ Len(passed) = calls)
        /\ \A k \in 1 .. Len(passed) :
              IF k = 1
              THEN passed[k] = [ W |-> W_init, b |-> b_init ]
              ELSE passed[k] = returned[k - 1]

\* A second call was made after a first one that changed weights and bias.
C13_Witness ==
    /\ mode = "train"
    /\ Len(passed) = 2
    /\ passed[2].W # passed[1].W
    /\ passed[2].b # passed[1].b

\* C14: once the k-th line is appended, nothing changes it any more.
C14_LinesAreSnapshots ==
    [][ /\ Len(boundary_lines') >= Len(boundary_lines)
        /\ \A k \in 1 .. Len(boundary_lines) :
              boundary_lines'[k] = boundary_lines[k] ]_vars

\* Two lines were appended and differ, and the first is still the line of
\* the first epoch although the weights have moved on.
C14_Witness ==
    /\ mode = "train"
    /\ Len(boundary_lines) = 2
    /\ boundary_lines[1] # boundary_lines[2]
    /\ boundary_lines[1] = boundaryLine(returned[1].W, returned[1].b)
    /\ W # returned[1].W

\* C15: deriving a line has no effect on training: after the line of an
\* epoch is appended the weights and bias are those perceptronStep returned
\* for that epoch.
C15_DerivationKeepsWeights ==
    (mode = "train" /\ pc \in {"epoch_loop", "done"} /\ Len(returned) >= 1) =>
        /\ Len(boundary_lines) = Len(returned)
        /\ [ W |-> W, b |-> b ] = returned[Len(returned)]

\* Two lines were derived from changed weights with a non-zero W[0].
C15_Witness ==
    /\ mode = "train"
    /\ pc = "epoch_loop"
    /\ Len(boundary_lines) = 2
    /\ W # W_init
    /\ W[1] # 0

\* C16: a call of prediction leaves the points, the weights and the bias
\* (the callee's and the caller's) as they were, whatever it returns.
C16_PredictionIsPure ==
    [][ (pc = "step_loop" /\ pc' = "step_update") =>
            UNCHANGED << X, y, W, step_b, b >> ]_vars

\* A prediction has returned 0 for the second pair of a pass, from weights
\* and a bias that are not zero.
C16_Witness ==
    /\ pc = "step_update"
    /\ i = 2
    /\ pred = 0
    /\ step_b # 0
    /\ W[1] # 0

\* C17 as stated: the k-th call of perceptronStep is made only when the
\* caller demands the k-th line, and a second walk through the sequence
\* yields nothing.
C17_AsStated ==
    mode = "train" =>
        /\ traversals <= 1 => calls <= cursor
        /\ traversals >= 2 => reads[2] = << >>

\* C17, amended: train returns an eager list that can be walked through
\* repeatedly: all num_epochs calls of perceptronStep are made before the
\* caller can read a line, and every walk yields the same num_epochs lines.
C17_EagerList ==
    mode = "train" =>
        /\ traversals >= 1 => (pc = "done" /\ calls = num_epochs)
        /\ Len(reads) = traversals
        /\ \A t \in 1 .. Len(reads) :
              /\ t < traversals => reads[t] = boundary_lines
              /\ t = traversals => reads[t] = SubSeq(boundary_lines, 1, cursor)
        /\ Len(boundary_lines) <= num_epochs

\* The caller has walked twice through a list of at least two lines.
C17_Witness ==
    /\ mode = "train"
    /\ traversals = 2
    /\ cursor = Len(boundary_lines)
    /\ Len(boundary_lines) >= 2
    /\ reads[1] = reads[2]

\* C19: a call of perceptronStep that changes neither weights nor bias is
\* absorbing: every later call of the run returns the same weights and
\* bias, and all lines from that epoch on are equal.
C19_NoUpdateAbsorbing ==
    mode = "train" =>
        \A k \in 1 .. Len(returned) :
            passed[k] = returned[k] =>
                \A j \in k .. Len(returned) :
                    /\ returned[j] = returned[k]
                    /\ j <= Len(boundary_lines) =>
                          boundary_lines[j] = boundary_lines[k]

\* A train returned whose last-but-one epoch changed nothing although the
\* dataset has both labels.
C19_Witness ==
    /\ mode = "train"
    /\ pc = "done"
    /\ Len(returned) >= 2
    /\ passed[Len(returned) - 1] = returned[Len(returned) - 1]
    /\ \E k \in 1 .. Len(y) : y[k] # y[1]

\* C20: on a linearly separable dataset of 2D points with binary labels
\* and a positive learning rate, repeating perceptronStep from any initial
\* weights and bias reaches a pass in which no point is misclassified and
\* nothing is updated.
C20_Converges ==
    /\ (mode = "iterate") ~> (pc = "converged")
    /\ [](pc = "converged" =>
            /\ \A k \in 1 .. Len(X) :
                  y[k] = (IF Activation(X[k], W, b) >= 0 THEN 1 ELSE 0)
            /\ Len(visited) = Len(X)
            /\ \A k \in 1 .. Len(visited) :
                  /\ visited[k].y_hat = y[k]
                  /\ visited[k].W_post = visited[k].W
                  /\ visited[k].b_post = visited[k].b)

\* A run converged in its fourth pass or later, on a dataset with both
\* labels.
C20_Witness ==
    /\ mode = "iterate"
    /\ pc = "converged"
    /\ calls >= 4
    /\ \E k \in 1 .. Len(y) : y[k] # y[1]

\* The operations of one mini-batch, in order.
BatchOps == << "zero_grad", "forward", "loss", "backward", "step" >>

\* C18: in the training loop every mini-batch runs zero_grad, forward,
\* loss, backward and optimizer step in that order, with exactly one
\* optimizer step per batch, and the gradients are cleared between two
\* backward passes: an optimizer step never sees more than one of them.
C18_BatchOrder ==
    loop_pc # "off" =>
        /\ Len(ops) <= Len(BatchOps)
        /\ ops = SubSeq(BatchOps, 1, Len(ops))
        /\ loop_pc = "forward" => ops = SubSeq(BatchOps, 1, 1)
        /\ loop_pc = "loss" => ops = SubSeq(BatchOps, 1, 2)
        /\ loop_pc = "backward" => ops = SubSeq(BatchOps, 1, 3)
        /\ loop_pc = "opt_step" => ops = SubSeq(BatchOps, 1, 4)
        /\ (loop_pc \in {"add_loss", "check_print"}
              \/ (steps > 0 /\ loop_pc \in {"batch_head", "epoch_head", "loop_done"}))
              => ops = BatchOps
        /\ opt_steps = (IF Len(ops) = Len(BatchOps) THEN steps
                        ELSE IF steps = 0 THEN 0 ELSE steps - 1)
        /\ loop_pc \in {"forward", "loss", "backward"} => grads = 0
        /\ loop_pc \in {"opt_step", "add_loss", "check_print"} => grads = 1
        /\ opt_steps >= 1 => opt_grads = 1
        /\ loop_pc = "loop_done" => opt_steps = epochs * NumBatches

\* The loop ended, having started with gradients left in .grad by an
\* earlier backward pass.
C18_Witness ==
    /\ loop_pc = "loop_done"
    /\ steps = epochs * NumBatches
    /\ opt_steps = steps
    /\ loop_e = 3
    /\ Len(printed) >= 1

\* The pairs of the running pass that were updated as false negatives ...
FalseNegatives == { k \in 1 .. Len(visited) : y[k] - visited[k].y_hat = 1 }

\* ... and as false positives.
FalsePositives == { k \in 1 .. Len(visited) : y[k] - visited[k].y_hat = -1 }

\* A direct call of perceptronStep returned after at least one update; the
\* caller has assigned nothing yet.
ReturnedAfterUpdate ==
    /\ mode = "step"
    /\ pc = "returned"
    /\ FalseNegatives \cup FalsePositives # {}

\* C21 as the claim states it: after a call that made at least one update
\* the caller's array holds the returned weights, the caller's bias is the
\* one it passed, and that bias differs from the returned bias.
C21_AsStated ==
    ReturnedAfterUpdate =>
        /\ W = visited[Len(visited)].W_post
        /\ b = b_in
        /\ b # ret_b

\* C21: perceptronStep updates the caller's weight array in place and
\* returns it, and returns the bias as a new value without changing the
\* caller's bias.  After a call that made at least one update the caller's
\* array holds the returned weights and its bias is still the one passed;
\* the returned bias differs from it exactly when the false negatives and
\* the false positives of the pass are not equally many.
C21_InPlaceWeightsNewBias ==
    ReturnedAfterUpdate =>
        /\ W = visited[Len(visited)].W_post
        /\ b = b_in
        /\ ret_b = visited[Len(visited)].b_post
        /\ (b # ret_b) <=>
              (Cardinality(FalseNegatives) # Cardinality(FalsePositives))

\* A call returned that changed the caller's array, with one false negative
\* and one false positive: the returned bias is the bias passed.
C21_Witness ==
    /\ ReturnedAfterUpdate
    /\ W # W_in
    /\ FalseNegatives # {}
    /\ FalsePositives # {}
    /\ ret_b = b

RECURSIVE SumOfDiffs(_, _)
\* Sum over the first n visited pairs of (label - predicted) * point[d].
SumOfDiffs(d, n) ==
    IF n = 0 THEN 0
    ELSE SumOfDiffs(d, n - 1) + (y[n] - visited[n].y_hat) * X[n][d]

\* C22: after one call of perceptronStep the returned bias is the bias
\* passed plus learn_rate * (F_neg - F_pos), each returned weight is the
\* weight passed plus learn_rate times the sum over the visited pairs of
\* (label - predicted) * point coordinate, and the updates are at most as
\* many as the dataset is long.
C22_PassSums ==
    StepDone =>
        /\ ret_b - b_in = learn_rate *
              (Cardinality(FalseNegatives) - Cardinality(FalsePositives))
        /\ \A d \in 1 .. 2 :
              W[d] - W_in[d] = learn_rate * SumOfDiffs(d, Len(visited))
        /\ Cardinality(FalseNegatives) + Cardinality(FalsePositives) <= Len(X)

\* A pass returned that updated every pair of a two-pair dataset, one as a
\* false negative and one as a false positive, and changed the weights.
C22_Witness ==
    /\ StepDone
    /\ Len(X) = 2
    /\ FalseNegatives # {}
    /\ FalsePositives # {}
    /\ W # W_in

\* dot(x, x) + 1 for a point of two coordinates.
SquaredNormPlusOne(Xp) == Xp[1] * Xp[1] + Xp[2] * Xp[2] + 1

\* C23: whenever perceptronStep updates on a misclassified point with a
\* positive learning rate, the activation of that same point moves strictly
\* toward the label: it grows by learn_rate * (dot(x, x) + 1) on a false
\* negative and shrinks by as much on a false positive.
C23_ActivationMovesToLabel ==
    \A k \in 1 .. Len(visited) :
        LET v      == visited[k]
            before == Activation(X[k], v.W, v.b)
            after  == Activation(X[k], v.W_post, v.b_post)
            move   == learn_rate * SquaredNormPlusOne(X[k])
        IN  /\ y[k] - v.y_hat = 1 =>
                  (after - before = move /\ after > before /\ before < 0)
            /\ y[k] - v.y_hat = -1 =>
                  (before - after = move /\ after < before /\ before >= 0)
            /\ y[k] = v.y_hat => after = before

\* A pass updated one point as a false negative and another as a false
\* positive, and one of the two has coordinates that differ.
C23_Witness ==
    /\ FalseNegatives # {}
    /\ FalsePositives # {}
    /\ \E k \in FalseNegatives \cup FalsePositives : X[k][1] # X[k][2]
    /\ Len(visited) = Len(X)

\* The training loop is past the print check of the batch it counted last.
PrintChecked == loop_pc \in {"batch_head", "epoch_head", "loop_done"}

\* C24 as the claim states it: a loss is printed exactly when the global
\* batch counter is a multiple of print_every, and every printed value is
\* the mean of the losses of exactly the print_every most recent batches,
\* also after an epoch boundary.
C24_AsStated ==
    loop_pc # "off" =>
        /\ Len(printed) = (IF PrintChecked \/ steps = 0 THEN steps
                           ELSE steps - 1) \div print_every
        /\ \A k \in 1 .. Len(printed) :
              /\ printed[k].steps = k * print_every
              /\ printed[k].batches = print_every
              /\ printed[k].shown = format4(printed[k].window, print_every)

\* What the loop cell does print: a line at every multiple of print_every
\* and at no other step, showing the sum of the losses added since
\* running_loss was last set to 0, by a print or by the start of an epoch,
\* divided by print_every.  After an epoch boundary these are fewer than
\* print_every losses.
PrintsSinceLastReset ==
    loop_pc # "off" =>
        /\ Len(printed) = (IF PrintChecked \/ steps = 0 THEN steps
                           ELSE steps - 1) \div print_every
        /\ \A k \in 1 .. Len(printed) :
              LET p       == printed[k]
                  inEpoch == p.steps - (p.epoch - 1) * NumBatches
              IN  /\ p.steps = k * print_every
                  /\ p.batches = (IF inEpoch < print_every THEN inEpoch
                                  ELSE print_every)
                  /\ p.batches < print_every =>
                        p.shown < format4(p.window, print_every)

\* A line was printed in an epoch that had run for fewer than print_every
\* batches.
PrintAfterEpochBoundary ==
    \E k \in 1 .. Len(printed) :
        /\ printed[k].epoch > 1
        /\ printed[k].batches < print_every

=============================================================================
